---- MODULE Spec2Model ----
(***************************************************************************)
(* A model of eagle_database: the exact-match search (quick_search), the   *)
(* identity resolver of Database, the merger-tree walk performed by the    *)
(* construction of a Subgroup, and the Subgroup's property cache.          *)
(*                                                                         *)
(* Conventions.  Positions are Python positions (0-based); an array is a   *)
(* TLA+ sequence, so the element at position p of a is a[p + 1].  A value  *)
(* that numpy may hand back in several shapes is a record [kind, val]:     *)
(*   kind "None"   : Python None                                           *)
(*   kind "array"  : a 1-d integer array, val its elements                 *)
(*   kind "matrix" : the (1, N) array a[None] (None is numpy.newaxis),     *)
(*                   val its only row                                      *)
(*   kind "object" : an object-dtype array (hstack of None and integers)   *)
(*   kind "int"    : a scalar                                              *)
(*   kind "tuple"  : a Python tuple                                        *)
(***************************************************************************)
EXTENDS Integers, Sequences, FiniteSets, TLC

VARIABLES
    catalogue,                \* the MergerTree/* and Subhalo/SnapNum columns of the file
    file_groups,              \* the Subhalo property columns present in the file
    _galaxyID_sorter,         \* Database._galaxyID_sorter
    _all_nodeIndex,           \* Database._all_nodeIndex (lazily built)
    subgroup,                 \* Database.subgroup, the last Subgroup track_subgroup built
    pc,                       \* "idle", or "walking" inside Subgroup.get_descendants
    self,                     \* the Subgroup instance under construction
    all_descendant_galaxyIDs, \* local of get_descendants
    next_galaxyID,            \* local of get_descendants
    last,                     \* the last call made on the Database / Subgroup and its outcome
    data,                     \* Database.data: the names of the groups loaded from the file
    gathers,                  \* per property name, how often its column was gathered
    search                    \* arguments and result of a direct quick_search call

vars == <<catalogue, file_groups, _galaxyID_sorter, _all_nodeIndex, subgroup, pc, self,
          all_descendant_galaxyIDs, next_galaxyID, last, data, gathers, search>>

(***************************************************************************)
(* Bounds of the model.                                                    *)
(***************************************************************************)
NRows      == 3    \* rows of the catalogue
MaxID      == 4    \* GalaxyID, TopLeafID and DescendantID are drawn from 1..MaxID
NSnap      == 2    \* number of snapshots (len(aExp))
MaxSpan    == 1    \* TopLeafID - GalaxyID is at most MaxSpan
MaxLinks   == 2    \* at most MaxLinks rows carry a DescendantID other than -1
MaxWalk    == 4    \* cap on the length of all_descendant_galaxyIDs (the loop has none)
MaxLen     == 3    \* longest haystack handed to quick_search directly
MaxVal     == 2    \* haystacks hold at most MaxVal distinct values
MaxNeedles == 2    \* largest batch of needles handed to quick_search directly
MaxMissing == 1    \* at most MaxMissing optional Subhalo columns are missing from the file

(***************************************************************************)
(* Python / numpy values.                                                  *)
(***************************************************************************)
None      == [kind |-> "None",   val |-> <<>>]
Array(s)  == [kind |-> "array",  val |-> s]
Matrix(s) == [kind |-> "matrix", val |-> s]
Object(s) == [kind |-> "object", val |-> s]
Int_(n)   == [kind |-> "int",    val |-> <<n>>]
Tuple(s)  == [kind |-> "tuple",  val |-> s]

Range(s) == {s[i] : i \in DOMAIN s}

Reverse(s) == [i \in 1..Len(s) |-> s[Len(s) + 1 - i]]

\* a[mask]: the elements of a at the positions where the boolean mask holds, in order
RECURSIVE Filter(_, _, _)
Filter(a, mask, i) ==
    IF i > Len(a) THEN <<>>
    ELSE (IF mask[i] THEN <<a[i]>> ELSE <<>>) \o Filter(a, mask, i + 1)

\* numpy.where(mask)[0]: the 0-based positions where the boolean mask holds
RECURSIVE where(_, _)
where(mask, i) ==
    IF i > Len(mask) THEN <<>>
    ELSE (IF mask[i] THEN <<i - 1>> ELSE <<>>) \o where(mask, i + 1)

\* numpy.arange(lo, hi)
arange(lo, hi) == [i \in 1..(IF hi > lo THEN hi - lo ELSE 0) |-> lo + i - 1]

\* numpy.diff
diff(a) == [i \in 1..(IF Len(a) > 0 THEN Len(a) - 1 ELSE 0) |-> a[i + 1] - a[i]]

\* numpy.argsort: the positions of a in ascending order of value
RECURSIVE argsort_from(_, _)
argsort_from(a, todo) ==
    IF todo = {} THEN <<>>
    ELSE LET p == CHOOSE q \in todo :
                     \A r \in todo : a[q + 1] < a[r + 1] \/ (a[q + 1] = a[r + 1] /\ q <= r)
         IN  <<p>> \o argsort_from(a, todo \ {p})

argsort(a) == argsort_from(a, 0..(Len(a) - 1))

(***************************************************************************)
(* helper_functions.quick_search                                           *)
(***************************************************************************)
\* the haystack as numpy.searchsorted reads it: through the sorter when one is given
SortedView(input_array, sorter_array) ==
    IF sorter_array.kind = "None" THEN input_array
    ELSE [i \in 1..Len(sorter_array.val) |-> input_array[sorter_array.val[i] + 1]]

\* numpy's binary search for one key between positions lo and hi
RECURSIVE binsearch(_, _, _, _, _)
binsearch(view, key, side, lo, hi) ==
    IF lo >= hi THEN lo
    ELSE LET mid == lo + ((hi - lo) \div 2)
         IN  IF (side = "left" /\ view[mid + 1] < key) \/ (side = "right" /\ view[mid + 1] <= key)
             THEN binsearch(view, key, side, mid + 1, hi)
             ELSE binsearch(view, key, side, lo, mid)

searchsorted(input_array, search_values, side, sorter_array) ==
    LET view == SortedView(input_array, sorter_array)
    IN  [k \in 1..Len(search_values) |-> binsearch(view, search_values[k], side, 0, Len(view))]

quick_search_nosort(input_array, search_values, sorter_array) ==
    LET left  == searchsorted(input_array, search_values, "left",  sorter_array)
        right == searchsorted(input_array, search_values, "right", sorter_array)
        positional_index == Filter(left, [k \in 1..Len(left) |-> left[k] # right[k]], 1)
    IN  IF Len(positional_index) # 0 THEN Array(positional_index) ELSE None

quick_search(input_array, search_values, sorter_array) ==
    LET left  == searchsorted(input_array, search_values, "left",  sorter_array)
        right == searchsorted(input_array, search_values, "right", sorter_array)
        positional_index == Filter(left, [k \in 1..Len(left) |-> left[k] # right[k]], 1)
    IN  IF Len(positional_index) # 0
        THEN IF sorter_array.kind # "None"
             THEN Array([k \in 1..Len(positional_index) |->
                            sorter_array.val[positional_index[k] + 1]])
             ELSE Array(positional_index)
        ELSE None

(***************************************************************************)
(* Python indexing and numpy integer-array indexing.                       *)
(***************************************************************************)
Ok(v)    == [status |-> "ok", value |-> v]
Raise(e) == [status |-> e,    value |-> None]

\* a[i] for an integer i: negative positions count from the end
PyItem(a, i) ==
    IF i >= 0 - Len(a) /\ i < Len(a)
    THEN Ok(a[(IF i < 0 THEN i + Len(a) ELSE i) + 1])
    ELSE Raise("IndexError")

\* a[ix] for what quick_search returned: None is numpy.newaxis
Index(a, ix) ==
    IF ix.kind = "None" THEN Matrix(a)
    ELSE Array([k \in 1..Len(ix.val) |-> a[ix.val[k] + 1]])

\* numpy.hstack of two values of a track
hstack(x, y) ==
    IF x.kind = "array" /\ y.kind = "array" THEN Array(x.val \o y.val)
    ELSE Object(x.val \o y.val)

(***************************************************************************)
(* The backing file.  NodeIndex = snapshot * SnapFactor + file *           *)
(* FileFactor + local index.  The program's factors are 1e12 and 1e8; the  *)
(* model scales them to 1e6 and 1e2 (their ratio is kept) so that every    *)
(* NodeIndex fits the model checker's integers.                            *)
(***************************************************************************)
SnapFactor == 1000000
FileFactor == 100

aExp      == [s \in 1..NSnap |-> 100 + s]   \* FileInfo/ExpansionFactorAtSnap, opaque
redshifts == [s \in 1..NSnap |-> 200 + s]   \* 1 / aExp - 1, opaque
tUniverse == [s \in 1..NSnap |-> 300 + s]   \* cosmology.age(redshifts), opaque
number_snapshots == Len(aExp)

\* the optional Subhalo property columns, and the content of one at a row
OptionalColumns == {"Mass", "CentreOfPotential_x", "CentreOfPotential_y", "CentreOfPotential_z",
                    "Velocity_x", "Velocity_y", "Velocity_z"}

ColumnCode(name) ==
    CASE name = "Mass"                -> 1
      [] name = "CentreOfPotential_x" -> 2
      [] name = "CentreOfPotential_y" -> 3
      [] name = "CentreOfPotential_z" -> 4
      [] name = "Velocity_x"          -> 5
      [] name = "Velocity_y"          -> 6
      [] name = "Velocity_z"          -> 7
      [] OTHER                        -> 0

Column(cat, name) ==
    IF name = "SnapNum" THEN cat.SnapNum
    ELSE [i \in 1..Len(cat.GalaxyID) |-> ColumnCode(name) * 10 + i]

MergerTreeGroups == {<<"MergerTree", "GalaxyID">>, <<"MergerTree", "nodeIndex">>,
                     <<"MergerTree", "TopLeafID">>, <<"MergerTree", "LastProgID">>,
                     <<"MergerTree", "DescendantID">>}

(***************************************************************************)
(* Database: the identity resolver.                                        *)
(***************************************************************************)
Unset == [kind |-> "unset"]

\* Database.get_galaxyID_sorter
get_galaxyID_sorter(cat) == Array(argsort(cat.GalaxyID))

\* Database.get_all_nodeIndex
get_all_nodeIndex(cat) ==
    [snap \in 1..number_snapshots |->
        Filter(cat.nodeIndex, [i \in 1..Len(cat.nodeIndex) |-> cat.nodeIndex[i] \div SnapFactor = snap - 1], 1)]

\* try: self._all_nodeIndex / except: self.get_all_nodeIndex()
EnsureAllNodeIndex(cat, current) ==
    IF current = Unset THEN [kind |-> "list", groups |-> get_all_nodeIndex(cat)] ELSE current

\* Database.galaxyID_to_nodeIndex
galaxyID_to_nodeIndex(cat, sorter, galaxyID) ==
    Ok(Index(cat.nodeIndex, quick_search(cat.GalaxyID, <<galaxyID>>, sorter)))

\* Database.nodeIndex_to_galaxyID
nodeIndex_to_galaxyID(cat, nodeIndex) ==
    Ok(Index(cat.GalaxyID, quick_search(cat.nodeIndex, <<nodeIndex>>, None)))

\* Database.nodeIndex_to_subgroup, scalar case
nodeIndex_to_subgroup(all_nodeIndex, nodeIndex) ==
    LET snapshot_number == nodeIndex \div SnapFactor
        group == PyItem(all_nodeIndex.groups, snapshot_number)
    IN  IF group.status # "ok" THEN Raise(group.status)
        ELSE LET found == quick_search(group.value, <<nodeIndex>>, None)
             IN  IF found.kind = "None" THEN Raise("TypeError")
                 ELSE Ok(Tuple(<<found.val[1], snapshot_number>>))

\* Database.subgroup_to_nodeIndex
subgroup_to_nodeIndex(all_nodeIndex, subgroup_number, snapshot_number) ==
    LET group == PyItem(all_nodeIndex.groups, snapshot_number)
    IN  IF group.status # "ok" THEN Raise(group.status)
        ELSE LET item == PyItem(group.value, subgroup_number)
             IN  IF item.status # "ok" THEN Raise(item.status) ELSE Ok(Int_(item.value))

(***************************************************************************)
(* Subgroup: construction.                                                 *)
(***************************************************************************)
\* Subgroup.get_positional_index
get_positional_index_clamped(cat, subgroup_number, snap_number) ==
    LET rows == where([i \in 1..Len(cat.SnapNum) |-> cat.SnapNum[i] = snap_number], 1)
    IN  IF Len(rows) > 0 /\ subgroup_number >= Len(rows)
        THEN Ok(rows[Len(rows)])
        ELSE PyItem(rows, subgroup_number)

get_positional_index(cat, subgroup_number, snap_number) ==
    PyItem(where([i \in 1..Len(cat.SnapNum) |-> cat.SnapNum[i] = snap_number], 1), subgroup_number)

\* Subgroup.get_nodeIndex, get_galaxyID, get_topLeafID, get_lastProgenitorID
get_nodeIndex(cat, positional_index)        == cat.nodeIndex[positional_index + 1]
get_galaxyID(cat, positional_index)         == cat.GalaxyID[positional_index + 1]
get_topLeafID(cat, positional_index)        == cat.TopLeafID[positional_index + 1]
get_lastProgenitorID(cat, positional_index) == cat.LastProgID[positional_index + 1]

\* Subgroup.get_galaxyID_info
get_galaxyID_info(cat, sorter, galaxyID_array) ==
    LET positional_index == quick_search(cat.GalaxyID, galaxyID_array, sorter)
    IN  [kind             |-> "dict",
         galaxyID         |-> Array(galaxyID_array),
         positional_index |-> positional_index,
         nodeIndex        |-> Index(cat.nodeIndex, positional_index)]

\* Subgroup.get_main_progenitors
get_main_progenitors_open(cat, sorter, galaxyID, topLeafID) ==
    get_galaxyID_info(cat, sorter, arange(galaxyID, topLeafID))

get_main_progenitors(cat, sorter, galaxyID, topLeafID) ==
    get_galaxyID_info(cat, sorter, arange(galaxyID, topLeafID + 1))

\* Subgroup.get_next_descendant; galaxyID is the batch of needles
get_next_descendant(cat, sorter, galaxyID) ==
    Index(cat.DescendantID, quick_search(cat.GalaxyID, galaxyID, sorter))

\* the truth value Python takes of (next_galaxyID != -1) at the head of the loop
LoopCondition(next) ==
    IF Len(next.val) = 1 THEN Ok(next.val[1] # -1)
    ELSE IF Len(next.val) = 0 THEN Ok(FALSE)
    ELSE Raise("ValueError")

\* Subgroup.get_descendants, after its loop has ended
get_descendants_collected(cat, sorter, descendant_galaxyIDs) ==
    IF descendant_galaxyIDs = <<>> THEN None
    ELSE get_galaxyID_info(cat, sorter, descendant_galaxyIDs)

get_descendants(cat, sorter, descendant_galaxyIDs) ==
    IF descendant_galaxyIDs = <<>> THEN None
    ELSE get_galaxyID_info(cat, sorter, Reverse(descendant_galaxyIDs))

\* Subgroup.build_main_merger_tree
build_main_merger_tree_appended(main_progenitors, descendants) ==
    IF main_progenitors.kind = "None" THEN descendants
    ELSE IF descendants.kind = "None" THEN main_progenitors
    ELSE [kind             |-> "dict",
          galaxyID         |-> hstack(main_progenitors.galaxyID, descendants.galaxyID),
          positional_index |-> hstack(main_progenitors.positional_index,
                                      descendants.positional_index),
          nodeIndex        |-> hstack(main_progenitors.nodeIndex, descendants.nodeIndex)]

build_main_merger_tree(main_progenitors, descendants) ==
    IF main_progenitors.kind = "None" THEN descendants
    ELSE IF descendants.kind = "None" THEN main_progenitors
    ELSE [kind             |-> "dict",
          galaxyID         |-> hstack(descendants.galaxyID, main_progenitors.galaxyID),
          positional_index |-> hstack(descendants.positional_index,
                                      main_progenitors.positional_index),
          nodeIndex        |-> hstack(descendants.nodeIndex, main_progenitors.nodeIndex)]

\* Subgroup.identify_last_resolved_snapshot; SnapNum is self['SnapNum']
identify_last_resolved_snapshot_lastbreak(main_merger_tree, SnapNum) ==
    LET cumulative_galaxyID_diff == diff(main_merger_tree.galaxyID.val)
        lost_positional_index ==
            where([i \in 1..Len(cumulative_galaxyID_diff) |-> cumulative_galaxyID_diff[i] # 1], 1)
    IN  IF Len(lost_positional_index) = 0 THEN Ok(-1)
        ELSE PyItem(SnapNum.val, lost_positional_index[Len(lost_positional_index)] + 1)

identify_last_resolved_snapshot(main_merger_tree, SnapNum) ==
    LET cumulative_galaxyID_diff == diff(main_merger_tree.galaxyID.val)
        lost_positional_index ==
            where([i \in 1..Len(cumulative_galaxyID_diff) |-> cumulative_galaxyID_diff[i] # 1], 1)
    IN  IF Len(lost_positional_index) = 0 THEN Ok(-1)
        ELSE PyItem(SnapNum.val, lost_positional_index[1] + 1)

\* the gather database['Subhalo/<name>'][()][positional_index]
Gather(cat, name, positional_index) ==
    IF positional_index.kind = "object" THEN Raise("IndexError")
    ELSE Ok(Index(Column(cat, name), positional_index))

\* Subgroup.__init__ up to the loop of get_descendants: the fields of self set so far
InitFields(cat, sorter, subgroup_number, snap_number, positional_index) ==
    LET galaxyID  == get_galaxyID(cat, positional_index)
        topLeafID == get_topLeafID(cat, positional_index)
    IN  [_subgroup_number  |-> subgroup_number,
         _snap_number      |-> snap_number,
         _positional_index |-> positional_index,
         _nodeIndex        |-> get_nodeIndex(cat, positional_index),
         _galaxyID         |-> galaxyID,
         _topLeafID        |-> topLeafID,
         _lastProgenitorID |-> get_lastProgenitorID(cat, positional_index),
         _main_progenitors |-> get_main_progenitors(cat, sorter, galaxyID, topLeafID)]

\* Subgroup.__init__ from the end of the loop of get_descendants to its last line
FinishInit(cat, sorter, fields, descendant_galaxyIDs) ==
    LET descendants      == get_descendants(cat, sorter, descendant_galaxyIDs)
        main_merger_tree == build_main_merger_tree(fields._main_progenitors, descendants)
        SnapNum          == Gather(cat, "SnapNum", main_merger_tree.positional_index)
    IN  IF SnapNum.status # "ok" THEN Raise(SnapNum.status)
        ELSE LET snaps == SnapNum.value
                 evolution == [name \in {"SnapNum", "aExp", "Redshift", "tUniverse"} |->
                                  CASE name = "SnapNum"   -> snaps
                                    [] name = "aExp"      -> Index(aExp, snaps)
                                    [] name = "Redshift"  -> Index(redshifts, snaps)
                                    [] name = "tUniverse" -> Index(tUniverse, snaps)]
                 last_resolved == identify_last_resolved_snapshot(main_merger_tree, snaps)
             IN  IF last_resolved.status # "ok" THEN Raise(last_resolved.status)
                 ELSE Ok([kind              |-> "Subgroup",
                          _subgroup_number  |-> fields._subgroup_number,
                          _snap_number      |-> fields._snap_number,
                          _positional_index |-> fields._positional_index,
                          _nodeIndex        |-> fields._nodeIndex,
                          _galaxyID         |-> fields._galaxyID,
                          _topLeafID        |-> fields._topLeafID,
                          _lastProgenitorID |-> fields._lastProgenitorID,
                          _main_progenitors |-> fields._main_progenitors,
                          _descendants      |-> descendants,
                          _main_merger_tree |-> main_merger_tree,
                          evolution         |-> evolution,
                          main_progenitor_branch_length |-> Len(snaps.val),
                          _last_resolved_snapshot |-> last_resolved.value])

\* the read-only properties of Subgroup
main_progenitors(sg)       == sg._main_progenitors
descendants(sg)            == sg._main_progenitors
main_merger_tree(sg)       == sg._main_merger_tree
last_resolved_snapshot(sg) == sg._last_resolved_snapshot

(***************************************************************************)
(* Subgroup: the property cache.  A request works on the triple            *)
(* [evolution, gathers, data] and leaves it as the code leaves it, also    *)
(* when it raises.                                                         *)
(***************************************************************************)
VectorNames == {"CentreOfPotential", "Velocity"}
Coords      == <<"x", "y", "z">>

ComponentName(property, i) ==
    CASE property = "CentreOfPotential" /\ i = 1 -> "CentreOfPotential_x"
      [] property = "CentreOfPotential" /\ i = 2 -> "CentreOfPotential_y"
      [] property = "CentreOfPotential" /\ i = 3 -> "CentreOfPotential_z"
      [] property = "Velocity"          /\ i = 1 -> "Velocity_x"
      [] property = "Velocity"          /\ i = 2 -> "Velocity_y"
      [] property = "Velocity"          /\ i = 3 -> "Velocity_z"

AllNames == {"SnapNum", "aExp", "Redshift", "tUniverse"} \cup OptionalColumns \cup VectorNames

Put(f, k, v) == [x \in (DOMAIN f) \cup {k} |-> IF x = k THEN v ELSE f[x]]

\* the else branch of get_property_evolution: one column gathered along the track
GatherColumn(cat, groups, sg, st, property) ==
    IF property = "SnapNum" \/ property \in groups
    THEN [st EXCEPT !.evolution = Put(@, property,
                                      Index(Column(cat, property),
                                            sg._main_merger_tree.positional_index)),
                    !.gathers[property] = @ + 1,
                    !.data = @ \cup {<<"Subhalo", property>>},
                    !.status = "ok"]
    ELSE [st EXCEPT !.status = "KeyError"]

\* the recursive call get_property_evolution makes for one component of a vector
ComponentRequest(cat, groups, sg, st, component) ==
    IF component \in DOMAIN st.evolution THEN [st EXCEPT !.status = "ok"]
    ELSE GatherColumn(cat, groups, sg, st, component)

\* self.evolution[property][:, i] = column
SetComponent(vectors, i, column) ==
    [k \in 1..Len(vectors) |-> [vectors[k] EXCEPT ![i] = column[k]]]

\* the loop over the coordinates, from coordinate i on
RECURSIVE VectorLoop(_, _, _, _, _, _)
VectorLoop(cat, groups, sg, st, property, i) ==
    IF i > Len(Coords) THEN [st EXCEPT !.status = "ok"]
    ELSE LET component == ComponentName(property, i)
             got       == ComponentRequest(cat, groups, sg, st, component)
         IN  IF got.status # "ok" THEN got
             ELSE VectorLoop(cat, groups, sg,
                             [got EXCEPT !.evolution[property] =
                                 [kind |-> "vectors",
                                  val  |-> SetComponent(@.val, i, got.evolution[component].val)]],
                             property, i + 1)

ZeroVectors(st) ==
    [kind |-> "vectors", val |-> [k \in 1..Len(st.evolution["aExp"].val) |-> <<0, 0, 0>>]]

\* Subgroup.get_property_evolution
get_property_evolution_nocache(cat, groups, sg, st, property) ==
    IF property \in VectorNames
    THEN VectorLoop(cat, groups, sg,
                    [st EXCEPT !.evolution = Put(@, property, ZeroVectors(st))], property, 1)
    ELSE GatherColumn(cat, groups, sg, st, property)

get_property_evolution(cat, groups, sg, st, property) ==
    IF property \in DOMAIN st.evolution THEN [st EXCEPT !.status = "ok"]
    ELSE IF property \in VectorNames
    THEN VectorLoop(cat, groups, sg,
                    [st EXCEPT !.evolution = Put(@, property, ZeroVectors(st))], property, 1)
    ELSE GatherColumn(cat, groups, sg, st, property)

(***************************************************************************)
(* The calls.                                                              *)
(***************************************************************************)
Call(op, args, status, value) ==
    [op |-> op, args |-> args, status |-> status, value |-> value]

NoGathers == [name \in AllNames |-> 0]

\* the head of the loop of get_descendants and, once the loop has ended, the
\* rest of Subgroup.__init__ and the assignment in Database.track_subgroup
LoopHead(fields, descendant_galaxyIDs, next) ==
    LET condition == LoopCondition(next)
        args      == <<fields._subgroup_number, fields._snap_number>>
        built     == FinishInit(catalogue, _galaxyID_sorter, fields, descendant_galaxyIDs)
        raised(e) == /\ pc' = "idle"
                     /\ self' = Unset
                     /\ all_descendant_galaxyIDs' = <<>>
                     /\ next_galaxyID' = None
                     /\ last' = Call("track_subgroup", args, e, None)
                     /\ UNCHANGED <<subgroup, gathers>>
    IN  IF condition.status # "ok" THEN raised(condition.status)
        ELSE IF condition.value
        THEN /\ pc' = "walking"
             /\ self' = fields
             /\ all_descendant_galaxyIDs' = descendant_galaxyIDs
             /\ next_galaxyID' = next
             /\ last' = Call("track_subgroup", args, "running", None)
             /\ UNCHANGED <<subgroup, gathers>>
        ELSE IF built.status # "ok" THEN raised(built.status)
        ELSE /\ pc' = "idle"
             /\ self' = Unset
             /\ all_descendant_galaxyIDs' = <<>>
             /\ next_galaxyID' = None
             /\ subgroup' = built.value
             /\ gathers' = [NoGathers EXCEPT !["SnapNum"] = 1]
             /\ last' = Call("track_subgroup", args, "ok", None)

\* Database.track_subgroup, up to the first test of the loop of get_descendants
track_subgroup(subgroup_number, snap_number) ==
    /\ pc = "idle"
    /\ LET located == get_positional_index(catalogue, subgroup_number, snap_number)
           fields  == InitFields(catalogue, _galaxyID_sorter, subgroup_number, snap_number,
                                 located.value)
       IN  IF located.status # "ok"
           THEN /\ last' = Call("track_subgroup", <<subgroup_number, snap_number>>,
                                located.status, None)
                /\ data' = data \cup {<<"Subhalo", "SnapNum">>}
                /\ UNCHANGED <<subgroup, pc, self, all_descendant_galaxyIDs, next_galaxyID,
                               gathers>>
           ELSE /\ data' = data \cup MergerTreeGroups \cup {<<"Subhalo", "SnapNum">>}
                /\ LoopHead(fields, <<>>,
                            get_next_descendant(catalogue, _galaxyID_sorter,
                                                <<fields._galaxyID>>))
    /\ UNCHANGED <<catalogue, file_groups, _galaxyID_sorter, _all_nodeIndex, search>>

\* one pass through the body of the loop of get_descendants
WalkStep ==
    /\ pc = "walking"
    /\ Len(all_descendant_galaxyIDs) < MaxWalk
    /\ LoopHead(self, Append(all_descendant_galaxyIDs, next_galaxyID.val[1]),
                get_next_descendant(catalogue, _galaxyID_sorter, next_galaxyID.val))
    /\ UNCHANGED <<catalogue, file_groups, _galaxyID_sorter, _all_nodeIndex, data, search>>

\* Subgroup.get_property_evolution / __getitem__ on the Subgroup track_subgroup built
PropertyRequest(property) ==
    /\ pc = "idle"
    /\ subgroup # Unset
    /\ LET st  == [evolution |-> subgroup.evolution, gathers |-> gathers, data |-> data,
                   status |-> "ok"]
           got == get_property_evolution(catalogue, file_groups, subgroup, st, property)
       IN  /\ subgroup' = [subgroup EXCEPT !.evolution = got.evolution]
           /\ gathers' = got.gathers
           /\ data' = got.data
           /\ last' = Call("get_property_evolution", <<>>, got.status,
                           IF got.status = "ok"
                           THEN [kind |-> "property", name |-> property,
                                 array |-> got.evolution[property]]
                           ELSE [kind |-> "property", name |-> property, array |-> None])
    /\ UNCHANGED <<catalogue, file_groups, _galaxyID_sorter, _all_nodeIndex, pc, self,
                   all_descendant_galaxyIDs, next_galaxyID, search>>

\* Database.galaxyID_to_nodeIndex
galaxyID_to_nodeIndex_call(galaxyID) ==
    /\ pc = "idle"
    /\ LET got == galaxyID_to_nodeIndex(catalogue, _galaxyID_sorter, galaxyID)
       IN  last' = Call("galaxyID_to_nodeIndex", <<galaxyID>>, got.status, got.value)
    /\ data' = data \cup {<<"MergerTree", "nodeIndex">>, <<"MergerTree", "GalaxyID">>}
    /\ UNCHANGED <<catalogue, file_groups, _galaxyID_sorter, _all_nodeIndex, subgroup, pc, self,
                   all_descendant_galaxyIDs, next_galaxyID, gathers, search>>

\* Database.nodeIndex_to_galaxyID
nodeIndex_to_galaxyID_call(nodeIndex) ==
    /\ pc = "idle"
    /\ LET got == nodeIndex_to_galaxyID(catalogue, nodeIndex)
       IN  last' = Call("nodeIndex_to_galaxyID", <<nodeIndex>>, got.status, got.value)
    /\ data' = data \cup {<<"MergerTree", "nodeIndex">>, <<"MergerTree", "GalaxyID">>}
    /\ UNCHANGED <<catalogue, file_groups, _galaxyID_sorter, _all_nodeIndex, subgroup, pc, self,
                   all_descendant_galaxyIDs, next_galaxyID, gathers, search>>

\* Database.nodeIndex_to_subgroup with a scalar
nodeIndex_to_subgroup_call(nodeIndex) ==
    /\ pc = "idle"
    /\ _all_nodeIndex' = EnsureAllNodeIndex(catalogue, _all_nodeIndex)
    /\ LET got == nodeIndex_to_subgroup(_all_nodeIndex', nodeIndex)
       IN  last' = Call("nodeIndex_to_subgroup", <<nodeIndex>>, got.status, got.value)
    /\ data' = IF _all_nodeIndex = Unset THEN data \cup {<<"MergerTree", "nodeIndex">>} ELSE data
    /\ UNCHANGED <<catalogue, file_groups, _galaxyID_sorter, subgroup, pc, self,
                   all_descendant_galaxyIDs, next_galaxyID, gathers, search>>

\* Database.subgroup_to_nodeIndex
subgroup_to_nodeIndex_call(subgroup_number, snapshot_number) ==
    /\ pc = "idle"
    /\ _all_nodeIndex' = EnsureAllNodeIndex(catalogue, _all_nodeIndex)
    /\ LET got == subgroup_to_nodeIndex(_all_nodeIndex', subgroup_number, snapshot_number)
       IN  last' = Call("subgroup_to_nodeIndex", <<subgroup_number, snapshot_number>>,
                        got.status, got.value)
    /\ data' = IF _all_nodeIndex = Unset THEN data \cup {<<"MergerTree", "nodeIndex">>} ELSE data
    /\ UNCHANGED <<catalogue, file_groups, _galaxyID_sorter, subgroup, pc, self,
                   all_descendant_galaxyIDs, next_galaxyID, gathers, search>>

\* a direct call of helper_functions.quick_search
quick_search_call ==
    /\ search.result = Unset
    /\ search' = [search EXCEPT !.result =
                     quick_search(search.input_array, search.search_values, search.sorter_array)]
    /\ UNCHANGED <<catalogue, file_groups, _galaxyID_sorter, _all_nodeIndex, subgroup, pc, self,
                   all_descendant_galaxyIDs, next_galaxyID, last, data, gathers>>

(***************************************************************************)
(* The catalogues the model is run on.  GalaxyID is unique; TopLeafID is   *)
(* not below GalaxyID; SnapNum is the snapshot that NodeIndex encodes;     *)
(* LastProgID is TopLeafID (no side branches).  Rows may be stored in any  *)
(* order, identifiers of a main branch may be missing, and DescendantID    *)
(* may name any identifier, present or not, so that chains, dangling links *)
(* and cycles all occur.                                                   *)
(***************************************************************************)
Min(a, b) == IF a < b THEN a ELSE b

RECURSIVE Ascending(_)
Ascending(S) ==
    IF S = {} THEN <<>>
    ELSE LET m == CHOOSE x \in S : \A y \in S : x <= y IN <<m>> \o Ascending(S \ {m})

IsAscending(a) == \A i \in 1..(Len(a) - 1) : a[i] <= a[i + 1]

Injective(a) == \A i, j \in DOMAIN a : a[i] = a[j] => i = j

\* the identifiers present: 1..MaxID without one run of MaxID - NRows identifiers,
\* which either starts at 2 (a hole among the identifiers) or ends at MaxID
IDSets == {(1..MaxID) \ (h..(h + (MaxID - NRows) - 1)) : h \in {2, NRows + 1}}

StoredOrders(ids) == {Ascending(ids), Reverse(Ascending(ids))}

\* rows stored snapshot by snapshot, NodeIndex ascending, two rows to a file
SnapOfRow(i, n)    == ((i - 1) * NSnap) \div n
RankOfRow(i, n)    == Cardinality({j \in 1..(i - 1) : SnapOfRow(j, n) = SnapOfRow(i, n)})
StoredNodeIndex(n) ==
    [i \in 1..n |-> SnapOfRow(i, n) * SnapFactor + (RankOfRow(i, n) \div 2) * FileFactor
                    + (RankOfRow(i, n) % 2)]

LinkSets(n) ==
    {f \in [1..n -> {0 - 1} \cup (1..MaxID)] :
        Cardinality({i \in 1..n : f[i] # 0 - 1}) <= MaxLinks}

MakeCatalogue(GalaxyID, nodeIndex, span, links) ==
    [GalaxyID     |-> GalaxyID,
     nodeIndex    |-> nodeIndex,
     SnapNum      |-> [i \in 1..Len(nodeIndex) |-> nodeIndex[i] \div SnapFactor],
     TopLeafID    |-> [i \in 1..Len(GalaxyID) |-> Min(GalaxyID[i] + span, MaxID)],
     LastProgID   |-> [i \in 1..Len(GalaxyID) |-> Min(GalaxyID[i] + span, MaxID)],
     DescendantID |-> links]

WalkerCatalogues ==
    UNION {UNION {{MakeCatalogue(stored, StoredNodeIndex(Len(stored)), span, links) :
                       span \in 0..MaxSpan, links \in LinkSets(Len(stored))} :
                  stored \in StoredOrders(ids)} :
           ids \in IDSets}

SubgroupNumbers == (0 - 1)..(NRows - 1)
SnapNumbers     == 0..(NSnap - 1)

NoCall   == Call("none", <<>>, "ok", None)
NoSearch == [input_array |-> <<>>, search_values |-> <<>>, sorter_array |-> None,
             result |-> None]

\* Database.__init__ on the file
OpenDatabase(cat, groups) ==
    /\ catalogue = cat
    /\ file_groups = groups
    /\ _galaxyID_sorter = get_galaxyID_sorter(cat)
    /\ _all_nodeIndex = Unset
    /\ subgroup = Unset
    /\ pc = "idle"
    /\ self = Unset
    /\ all_descendant_galaxyIDs = <<>>
    /\ next_galaxyID = None
    /\ last = NoCall
    /\ data = {<<"MergerTree", "GalaxyID">>}
    /\ gathers = NoGathers

(***************************************************************************)
(* Spec: one Subgroup is constructed on a freshly opened Database.  The    *)
(* construction reads the catalogue only, so every constructed Subgroup    *)
(* is one that this specification constructs.                              *)
(***************************************************************************)
Init ==
    /\ \E cat \in WalkerCatalogues : OpenDatabase(cat, OptionalColumns)
    /\ search = NoSearch

Next ==
    \/ /\ last = NoCall
       /\ \E subgroup_number \in SubgroupNumbers, snap_number \in SnapNumbers :
              track_subgroup(subgroup_number, snap_number)
    \/ WalkStep

Spec == Init /\ [][Next]_vars

(***************************************************************************)
(* SpecSession: any sequence of track_subgroup and property requests on    *)
(* one Database, whose file may miss some of the optional Subhalo columns. *)
(* The catalogues are single main branches: the descendant of g is g - 1.  *)
(***************************************************************************)
BranchLinks(GalaxyID) ==
    [i \in 1..Len(GalaxyID) |->
        IF GalaxyID[i] - 1 \in Range(GalaxyID) THEN GalaxyID[i] - 1 ELSE 0 - 1]

SessionCatalogues ==
    {MakeCatalogue(Ascending(ids), StoredNodeIndex(Cardinality(ids)), MaxSpan,
                   BranchLinks(Ascending(ids))) : ids \in {1..NRows}}

MissingCandidates == {"Mass", "CentreOfPotential_y", "Velocity_x"}

FileGroupSets ==
    {OptionalColumns \ missing :
        missing \in {m \in SUBSET MissingCandidates : Cardinality(m) <= MaxMissing}}

PropertyNames == {"SnapNum", "Mass", "CentreOfPotential", "CentreOfPotential_y", "Velocity"}

InitSession ==
    /\ \E cat \in SessionCatalogues, groups \in FileGroupSets : OpenDatabase(cat, groups)
    /\ search = NoSearch

NextSession ==
    \/ \E subgroup_number \in {0, NRows - 1}, snap_number \in SnapNumbers :
           track_subgroup(subgroup_number, snap_number)
    \/ WalkStep
    \/ \E property \in PropertyNames : PropertyRequest(property)

SpecSession == InitSession /\ [][NextSession]_vars

(***************************************************************************)
(* SpecResolver: the identifier conversions of Database, on catalogues     *)
(* whose rows are stored in any order of NodeIndex.                        *)
(***************************************************************************)
NodeIndexInputs ==
    {snap * SnapFactor + file * FileFactor + local :
        snap \in 0..NSnap, file \in 0..1, local \in 0..1}

RowOrders(n) == {p \in [1..n -> 1..n] : Injective(p)}

ResolverCatalogues ==
    {MakeCatalogue(Ascending(ids),
                   [i \in 1..Cardinality(ids) |-> StoredNodeIndex(Cardinality(ids))[p[i]]],
                   0, [i \in 1..Cardinality(ids) |-> 0 - 1]) :
        ids \in IDSets, p \in RowOrders(NRows)}

InitResolver ==
    /\ \E cat \in ResolverCatalogues : OpenDatabase(cat, OptionalColumns)
    /\ search = NoSearch

NextResolver ==
    \/ \E galaxyID \in 1..MaxID : galaxyID_to_nodeIndex_call(galaxyID)
    \/ \E nodeIndex \in NodeIndexInputs : nodeIndex_to_galaxyID_call(nodeIndex)
    \/ \E nodeIndex \in NodeIndexInputs : nodeIndex_to_subgroup_call(nodeIndex)
    \/ \E subgroup_number \in SubgroupNumbers, snapshot_number \in 0..NSnap :
           subgroup_to_nodeIndex_call(subgroup_number, snapshot_number)

SpecResolver == InitResolver /\ [][NextResolver]_vars

(***************************************************************************)
(* SpecSearch: quick_search called directly, on every haystack that is     *)
(* ascending as stored (no sorter) or through the sorter handed in.        *)
(***************************************************************************)
\* haystack values are odd, so that needles fall below, between and above them
Haystacks == UNION {[1..n -> {2 * v - 1 : v \in 1..MaxVal}] : n \in 0..MaxLen}
Needles   == UNION {[1..n -> 0..(2 * MaxVal)] : n \in 0..MaxNeedles}

Sorters(input_array) ==
    {Array(p) : p \in {q \in [1..Len(input_array) -> 0..(Len(input_array) - 1)] :
                          /\ Injective(q)
                          /\ IsAscending(SortedView(input_array, Array(q)))}}
    \cup (IF IsAscending(input_array) THEN {None} ELSE {})

InitSearch ==
    /\ \E cat \in SessionCatalogues : OpenDatabase(cat, OptionalColumns)
    /\ \E input_array \in Haystacks, search_values \in Needles :
           \E sorter_array \in Sorters(input_array) :
               search = [input_array |-> input_array, search_values |-> search_values,
                         sorter_array |-> sorter_array, result |-> Unset]

NextSearch == quick_search_call

SpecSearch == InitSearch /\ [][NextSearch]_vars

(***************************************************************************)
(* The claims.                                                             *)
(***************************************************************************)
Constructed == subgroup # Unset

\* the row (1-based) of the catalogue that holds GalaxyID id
RowOf(id)     == CHOOSE i \in 1..Len(catalogue.GalaxyID) : catalogue.GalaxyID[i] = id
Present(id)   == id \in Range(catalogue.GalaxyID)
DescOf(id)    == catalogue.DescendantID[RowOf(id)]
SnapNumOf(id) == catalogue.SnapNum[RowOf(id)]

\* C1: the descendant walk visits each identifier at most once: the identifier
\* it starts from and the identifiers it has collected are all different.
C1_WalkVisitsEachIdentifierOnce ==
    pc = "walking" => Injective(<<self._galaxyID>> \o all_descendant_galaxyIDs)

\* the case of C2: a single-entry branch g whose descendant chain is g -> d -> -1
C2_Case ==
    /\ Constructed
    /\ subgroup._galaxyID = subgroup._topLeafID
    /\ DescOf(subgroup._galaxyID) # 0 - 1
    /\ DescOf(subgroup._galaxyID) - subgroup._galaxyID # 1
    /\ Present(DescOf(subgroup._galaxyID))
    /\ DescOf(DescOf(subgroup._galaxyID)) = 0 - 1

\* C2 as stated: in that case the GalaxyID sequence of main_merger_tree is [g, d]
\* and last_resolved_snapshot is the SnapNum stored at the row of d.
C2_SelectedRowFirst ==
    C2_Case =>
        LET g == subgroup._galaxyID
            d == DescOf(g)
        IN  /\ main_merger_tree(subgroup).galaxyID.val = <<g, d>>
            /\ last_resolved_snapshot(subgroup) = SnapNumOf(d)

\* C2 as amended: in that case the GalaxyID sequence of main_merger_tree is
\* [d, g], descendant first, and last_resolved_snapshot is the SnapNum stored
\* at the row of g, or -1 when g - d = 1.
C2_DescendantFirst ==
    C2_Case =>
        LET g == subgroup._galaxyID
            d == DescOf(g)
        IN  /\ main_merger_tree(subgroup).galaxyID.val = <<d, g>>
            /\ last_resolved_snapshot(subgroup) = (IF g - d = 1 THEN 0 - 1 ELSE SnapNumOf(g))

C2_Witness ==
    /\ C2_Case
    /\ subgroup._galaxyID - DescOf(subgroup._galaxyID) # 1
    /\ SnapNumOf(subgroup._galaxyID) # SnapNumOf(DescOf(subgroup._galaxyID))

\* the positions k (0-based) of a track after which GalaxyID does not grow by one
Breaks(ids) == {k \in 0..(Len(ids) - 2) : ids[k + 2] - ids[k + 1] # 1}

\* C3: last_resolved_snapshot is -1 when consecutive GalaxyIDs of main_merger_tree
\* all differ by +1, and otherwise the SnapNum of the catalogue row at track
\* position k + 1, k being the first position after which they do not.
C3_LastResolvedSnapshot ==
    Constructed =>
        LET track  == main_merger_tree(subgroup)
            breaks == Breaks(track.galaxyID.val)
        IN  IF breaks = {} THEN last_resolved_snapshot(subgroup) = 0 - 1
            ELSE LET k == CHOOSE b \in breaks : \A c \in breaks : b <= c
                 IN  last_resolved_snapshot(subgroup)
                         = catalogue.SnapNum[track.positional_index.val[k + 2] + 1]

C3_Witness ==
    /\ Constructed
    /\ LET track  == main_merger_tree(subgroup)
           breaks == Breaks(track.galaxyID.val)
       IN  /\ Cardinality(breaks) >= 2
           /\ \E b \in breaks :
                  /\ b + 2 <= Len(track.positional_index.val)
                  /\ catalogue.SnapNum[track.positional_index.val[b + 2] + 1]
                         # last_resolved_snapshot(subgroup)

\* C4: the GalaxyID sequence of main_progenitors is GalaxyID, GalaxyID + 1, ...,
\* TopLeafID, and its length is TopLeafID - GalaxyID + 1.
C4_BranchContiguity ==
    Constructed =>
        LET ids == main_progenitors(subgroup).galaxyID.val
        IN  /\ Len(ids) = subgroup._topLeafID - subgroup._galaxyID + 1
            /\ \A i \in 1..Len(ids) : ids[i] = subgroup._galaxyID + i - 1

C4_Witness ==
    /\ Constructed
    /\ subgroup._topLeafID > subgroup._galaxyID

\* the positions a result of quick_search holds: None holds none
Positions(result) == IF result.kind = "None" THEN <<>> ELSE result.val

\* C5: quick_search returns, in needle order, one position of the haystack as
\* stored for each needle that occurs in the haystack, the haystack holding the
\* needle there, and nothing for a needle that does not occur.
C5_ExactMatch ==
    search.result # Unset =>
        LET found   == Positions(search.result)
            present == Filter(search.search_values,
                              [k \in 1..Len(search.search_values) |->
                                   search.search_values[k] \in Range(search.input_array)], 1)
        IN  /\ Len(found) = Len(present)
            /\ \A k \in 1..Len(found) :
                   /\ found[k] \in 0..(Len(search.input_array) - 1)
                   /\ search.input_array[found[k] + 1] = present[k]

C5_Witness ==
    /\ search.result # Unset
    /\ search.sorter_array.kind = "array"
    /\ ~IsAscending(search.input_array)
    /\ Len(search.search_values) = 2
    /\ search.search_values[1] \notin Range(search.input_array)
    /\ search.search_values[2] \in Range(search.input_array)
    /\ search.result.kind = "array"

\* the number of rows whose NodeIndex decodes to snap
RowsAt(snap) ==
    Cardinality({i \in 1..Len(catalogue.nodeIndex) : catalogue.nodeIndex[i] \div SnapFactor = snap})

\* C6: nodeIndex_to_subgroup(subgroup_to_nodeIndex(s, snap)) is (s, snap) for
\* every snapshot snap and every s below the number of rows of that snapshot.
C6_RoundTrip ==
    \A snap \in 0..(number_snapshots - 1) :
        \A s \in 0..(RowsAt(snap) - 1) :
            (/\ last.op = "nodeIndex_to_subgroup"
             /\ subgroup_to_nodeIndex(_all_nodeIndex, s, snap) = Ok(Int_(last.args[1])))
            => (last.status = "ok" /\ last.value = Tuple(<<s, snap>>))

\* C7: galaxyID_to_nodeIndex and nodeIndex_to_galaxyID end in an error when the
\* identifier they are given is not in the GalaxyID (NodeIndex) array.
C7_AbsentIdentifierFails ==
    (\/ last.op = "galaxyID_to_nodeIndex" /\ last.args[1] \notin Range(catalogue.GalaxyID)
     \/ last.op = "nodeIndex_to_galaxyID" /\ last.args[1] \notin Range(catalogue.nodeIndex))
    => last.status # "ok"

\* the number of rows whose SnapNum is snap
RowsWithSnapNum(snap) ==
    Cardinality({i \in 1..Len(catalogue.SnapNum) : catalogue.SnapNum[i] = snap})

\* C8: track_subgroup with a subgroup_number at or beyond the number of rows of
\* snap_number ends in IndexError, leaves no instance under construction and
\* leaves Database.subgroup as it was.
C8_OutOfRangeConstruction ==
    [][(/\ pc = "idle"
        /\ last'.op = "track_subgroup"
        /\ last'.args[1] >= RowsWithSnapNum(last'.args[2]))
       => (/\ last'.status = "IndexError"
           /\ pc' = "idle"
           /\ self' = Unset
           /\ subgroup' = subgroup)]_vars

C8_Witness ==
    /\ last.op = "track_subgroup"
    /\ last.args[1] >= RowsWithSnapNum(last.args[2])
    /\ last.status = "IndexError"
    /\ Constructed

\* C9: a request for a name that is in the property cache returns the stored
\* array, gathers nothing and changes no cache entry, and no name is gathered
\* more than once for one Subgroup.
C9_CachedRequests ==
    [][/\ \A name \in AllNames :
              (/\ pc = "idle"
               /\ Constructed
               /\ name \in DOMAIN subgroup.evolution
               /\ last'.op = "get_property_evolution"
               /\ last'.value.name = name)
              => (/\ last'.status = "ok"
                  /\ last'.value.array = subgroup.evolution[name]
                  /\ subgroup' = subgroup
                  /\ gathers' = gathers)
       /\ \A name \in AllNames : gathers'[name] <= 1]_vars

C9_Witness ==
    /\ Constructed
    /\ last.op = "get_property_evolution"
    /\ last.status = "ok"
    /\ last.value.name = "CentreOfPotential_y"
    /\ "CentreOfPotential" \in DOMAIN subgroup.evolution
    /\ gathers["CentreOfPotential_y"] = 1

\* C10: the descendants attribute of a constructed Subgroup is the descendant
\* chain that get_descendants computed (None when there is no descendant).
C10_DescendantsAttribute ==
    Constructed => descendants(subgroup) = subgroup._descendants


\* the successive DescendantID values reached from id, at most n of them, up to
\* the first that is -1 or that names no row
RECURSIVE ChainFrom(_, _)
ChainFrom(id, n) ==
    IF n = 0 \/ ~Present(id) \/ DescOf(id) = 0 - 1 THEN <<>>
    ELSE <<DescOf(id)>> \o ChainFrom(DescOf(id), n - 1)

\* C11: the GalaxyID sequence of main_merger_tree is the descendant chain of the
\* selected row, farthest descendant first, followed by GalaxyID .. TopLeafID;
\* it is main_progenitors itself when the selected row's DescendantID is -1;
\* the chain is the successive DescendantID values and ends at the value -1 only.
C11_TrackIsChainThenBranch ==
    Constructed =>
        LET g     == subgroup._galaxyID
            chain == ChainFrom(g, NRows + 1)
            last_ == IF chain = <<>> THEN g ELSE chain[Len(chain)]
        IN  /\ main_merger_tree(subgroup).galaxyID.val
                   = Reverse(chain) \o arange(g, subgroup._topLeafID + 1)
            /\ DescOf(g) = 0 - 1 => main_merger_tree(subgroup) = main_progenitors(subgroup)
            /\ subgroup._descendants
                   = (IF chain = <<>> THEN None
                      ELSE get_galaxyID_info(catalogue, _galaxyID_sorter, Reverse(chain)))
            /\ Present(last_) /\ DescOf(last_) = 0 - 1
            /\ Len(chain) <= NRows

C11_Witness ==
    /\ Constructed
    /\ Len(ChainFrom(subgroup._galaxyID, NRows + 1)) >= 2
    /\ subgroup._topLeafID > subgroup._galaxyID
    /\ subgroup._descendants.kind = "dict"
    /\ subgroup._descendants.galaxyID.val # Reverse(subgroup._descendants.galaxyID.val)


\* a track is a sequence of aligned triples: its three components have the same
\* length and the row at positional_index[k] holds galaxyID[k] and nodeIndex[k]
Aligned(track) ==
    /\ Len(track.positional_index.val) = Len(track.galaxyID.val)
    /\ Len(track.nodeIndex.val) = Len(track.galaxyID.val)
    /\ \A k \in 1..Len(track.galaxyID.val) :
           /\ catalogue.GalaxyID[track.positional_index.val[k] + 1] = track.galaxyID.val[k]
           /\ catalogue.nodeIndex[track.positional_index.val[k] + 1] = track.nodeIndex.val[k]

\* C12: main_progenitors and main_merger_tree of a constructed Subgroup are
\* sequences of aligned triples, also when an identifier of GalaxyID .. TopLeafID
\* is in no row of the catalogue.
C12_TracksAreAlignedTriples ==
    Constructed =>
        /\ Aligned(main_progenitors(subgroup))
        /\ Aligned(main_merger_tree(subgroup))


\* C13: a property request that fails leaves the property cache as it was: the
\* cached names keep their arrays and the failed name gets no entry.
C13_FailedRequestKeepsCache ==
    [][(/\ pc = "idle"
        /\ Constructed
        /\ last'.op = "get_property_evolution"
        /\ last'.status # "ok")
       => (/\ subgroup'.evolution = subgroup.evolution
           /\ last'.value.name \notin DOMAIN subgroup'.evolution)]_vars


\* C14: for a constructed Subgroup, whatever subgroup_number it was constructed
\* with, nodeIndex_to_subgroup of its nodeIndex returns its (subgroup_number,
\* snap_number); every catalogue here has SnapNum = the snapshot of NodeIndex.
C14_ResolverAgreesWithSelection ==
    Constructed =>
        nodeIndex_to_subgroup(EnsureAllNodeIndex(catalogue, _all_nodeIndex), subgroup._nodeIndex)
            = Ok(Tuple(<<subgroup._subgroup_number, subgroup._snap_number>>))

====
